---------------------------- MODULE Spec2Model ----------------------------
(***************************************************************************)
(* Model of the Tauri backend of gemini-desktop:                           *)
(*   utils.rs            calculate_webview_bounds (pure geometry)          *)
(*   proxy.rs            handle_proxy_request / error_response             *)
(*   commands/webview.rs create_gemini_webview                             *)
(*                                                                         *)
(* Three state machines share the module; each specification moves only    *)
(* its own variables:                                                      *)
(*   SpecBounds   inputs of calculate_webview_bounds and its result        *)
(*   SpecProxy    a sequence of handle_proxy_request calls                 *)
(*   SpecWebview  concurrent create_gemini_webview invocations             *)
(***************************************************************************)
EXTENDS Integers, Sequences, FiniteSets, TLC

VARIABLES
    (* utils.rs *)
    bIn,          \* arguments of the last calculate_webview_bounds call
    bOut,         \* the Rect it returned, or None before the call
    (* proxy.rs *)
    request,      \* the incoming Request of the last call
    sent,         \* upstream requests issued by the last call (0 or 1)
    issuedBefore, \* cookies the upstream had set before the last call
    issued,       \* cookies the upstream has set so far
    upstream,     \* what the upstream answered in the last call
    response,     \* the Response the last call returned
    outcome,      \* which path the last call took
    (* commands/webview.rs *)
    windows,      \* labels the window registry resolves
    winGeom,      \* inner size and scale factor of the main window
    webviews,     \* registered child webviews, in creation order
    pc,           \* position of each invocation of create_gemini_webview
    result,       \* Result<(), CommandError> of each invocation
    bounds,       \* the local `bounds` of each invocation
    began         \* what the registries held when the invocation began

boundsVars  == <<bIn, bOut>>
proxyVars   == <<request, sent, issuedBefore, issued, upstream,
                 response, outcome>>
webviewVars == <<windows, winGeom, webviews, pc, result, bounds, began>>
vars        == <<boundsVars, proxyVars, webviewVars>>

\* Option<T>: None is the empty sequence, Some(x) the one-element sequence
None == <<>>
Some(x) == <<x>>

---------------------------------------------------------------------------
(***************************************************************************)
(* Numbers.  TLC integers are 32-bit signed, u32 is not: an unsigned       *)
(* number is kept exactly as two base-65536 limbs, value hi*65536 + lo.    *)
(* A u32 has hi <= 65535; the exact floor of an f64 product may have a     *)
(* larger hi.  An f64 is kept exactly as m * 2^e (m, e integers); every    *)
(* input below has a mantissa of a few bits, so the f64 product of two     *)
(* inputs is exact.                                                        *)
(***************************************************************************)
Limb == 2 ^ 16

Wide(n) == [hi |-> n \div Limb, lo |-> n % Limb]

WideGt(a, b) == a.hi > b.hi \/ (a.hi = b.hi /\ a.lo > b.lo)

WideLe(a, b) == ~WideGt(a, b)

\* a - b for a >= b
WideSub(a, b) ==
    IF a.lo >= b.lo
    THEN [hi |-> a.hi - b.hi, lo |-> a.lo - b.lo]
    ELSE [hi |-> a.hi - b.hi - 1, lo |-> a.lo + Limb - b.lo]

U32_MAX == [hi |-> Limb - 1, lo |-> Limb - 1]

F64(m, e) == [m |-> m, e |-> e]

\* titlebar_height * scale_factor
F64Mul(a, b) == [m |-> a.m * b.m, e |-> a.e + b.e]

\* the integer part of a non-negative f64, exactly
F64Trunc(f) ==
    IF f.e <= 0 THEN Wide(f.m \div (2 ^ (0 - f.e)))
    ELSE IF f.e >= 16 THEN [hi |-> f.m * (2 ^ (f.e - 16)), lo |-> 0]
    ELSE [hi |-> f.m \div (2 ^ (16 - f.e)),
          lo |-> (f.m % (2 ^ (16 - f.e))) * (2 ^ f.e)]

\* `f as u32`: truncates toward zero and saturates at u32::MAX
F64AsU32(f) ==
    LET t == F64Trunc(f) IN IF t.hi >= Limb THEN U32_MAX ELSE t

\* `a as i32`: reinterprets the 32 bits, so values >= 2^31 wrap negative
U32AsI32(a) ==
    IF a.hi < 32768 THEN a.hi * Limb + a.lo
    ELSE (a.hi - Limb) * Limb + a.lo

---------------------------------------------------------------------------
(* utils.rs *)

Rect(x, y, width, height) ==
    [x |-> x, y |-> y, width |-> width, height |-> height]

\* a faulty variant: the titlebar height is not scaled to physical pixels
calculate_webview_bounds_unscaled(window_width, window_height, scale_factor, titlebar_height) ==
    LET titlebar_height_phys == F64AsU32(titlebar_height)
        height == IF WideGt(window_height, titlebar_height_phys)
                  THEN WideSub(window_height, titlebar_height_phys)
                  ELSE Wide(0)
    IN  Rect(0, U32AsI32(titlebar_height_phys), window_width, height)

calculate_webview_bounds(window_width, window_height, scale_factor, titlebar_height) ==
    LET titlebar_height_phys == F64AsU32(F64Mul(titlebar_height, scale_factor))
        width  == window_width
        height == IF WideGt(window_height, titlebar_height_phys)
                  THEN WideSub(window_height, titlebar_height_phys)
                  ELSE Wide(0)
    IN  Rect(0, U32AsI32(titlebar_height_phys), width, height)

(* The arguments the function is applied to: the values of the unit tests  *)
(* of utils.rs, fractional products, and products at and beyond the i32    *)
(* and u32 limits.                                                         *)
WindowWidths  == {Wide(0), Wide(100), Wide(800), Wide(1920), U32_MAX}
WindowHeights == {Wide(0), Wide(20), Wide(32), Wide(33), Wide(48), Wide(49),
                  Wide(600), Wide(1080), [hi |-> 32768, lo |-> 0], U32_MAX}
ScaleFactors  == {F64(1, 0), F64(3, -1), F64(5, -2), F64(2, 0), F64(97, -6),
                  F64(1, 26), F64(1, 28)}
TitlebarHeights == {F64(0, 0), F64(32, 0), F64(65, -1)}

BoundsInputs ==
    [window_width : WindowWidths, window_height : WindowHeights,
     scale_factor : ScaleFactors, titlebar_height : TitlebarHeights]

BoundsInit ==
    /\ bIn \in BoundsInputs
    /\ bOut = None

Calculate ==
    /\ bOut = None
    /\ bOut' = Some(calculate_webview_bounds(bIn.window_width,
                        bIn.window_height, bIn.scale_factor, bIn.titlebar_height))
    /\ UNCHANGED <<bIn, proxyVars, webviewVars>>

\* the function is called again, with other arguments
NextCall ==
    /\ bOut # None
    /\ bIn' \in BoundsInputs
    /\ bOut' = None
    /\ UNCHANGED <<proxyVars, webviewVars>>

---------------------------------------------------------------------------
(* proxy.rs *)

\* Header values and bodies are byte strings: sequences of 0..255.
TEXT_PLAIN == <<116, 101, 120, 116, 47, 112, 108, 97, 105, 110>>
TEXT_HTML  == <<116, 101, 120, 116, 47, 104, 116, 109, 108>>
TEXT_CSS   == <<116, 101, 120, 116, 47, 99, 115, 115>>
\* "text/css" followed by the obs-text byte 0xE9, legal in a header value
TEXT_OBS   == <<116, 101, 120, 116, 47, 99, 115, 115, 59, 233>>

MsgInternal  == <<73, 110, 116, 101, 114, 110, 97, 108, 32, 112, 114, 111,
                  120, 121, 32, 101, 114, 114, 111, 114>>
MsgFetch     == <<70, 97, 105, 108, 101, 100, 32, 116, 111, 32, 102, 101,
                  116, 99, 104, 32, 102, 114, 111, 109, 32, 71, 101, 109,
                  105, 110, 105>>
MsgRead      == <<70, 97, 105, 108, 101, 100, 32, 116, 111, 32, 114, 101,
                  97, 100, 32, 114, 101, 115, 112, 111, 110, 115, 101>>
MsgBuild     == <<82, 101, 115, 112, 111, 110, 115, 101, 32, 98, 117, 105,
                  108, 100, 32, 101, 114, 114, 111, 114>>

HEADERS_TO_STRIP ==
    {"x-frame-options", "content-security-policy", "x-content-type-options"}

GEMINI_BASE_URL == "https://gemini.google.com"

CONTENT_TYPE == "content-type"

\* HeaderMap::get: the first value stored under the name
HeaderGet(headers, name) ==
    LET at == {i \in 1..Len(headers) : headers[i][1] = name}
    IN  IF at = {} THEN None
        ELSE Some(headers[CHOOSE i \in at : \A j \in at : i <= j][2])

HeaderNames(headers) == {headers[i][1] : i \in 1..Len(headers)}

\* HeaderValue::to_str: Some only when every byte is visible ASCII or a tab
ToStr(v) ==
    IF \A i \in 1..Len(v) : (v[i] >= 32 /\ v[i] < 127) \/ v[i] = 9
    THEN Some(v) ELSE None

\* HeaderValue::try_from(String): bytes >= 32 other than DEL, or a tab
ValidHeaderValue(v) ==
    \A i \in 1..Len(v) : (v[i] >= 32 /\ v[i] # 127) \/ v[i] = 9

\* StatusCode::from_u16
ValidStatus(status) == status >= 100 /\ status < 1000

Panic == [panic |-> TRUE]
IsPanic(r) == "panic" \in DOMAIN r

\* Response::builder().status(..).header(CONTENT_TYPE, ..).body(..)
BuildResponse(status, content_type, body) ==
    IF ValidStatus(status) /\ ValidHeaderValue(content_type)
    THEN Some([status  |-> status,
               headers |-> <<<<CONTENT_TYPE, content_type>>>>,
               body    |-> body])
    ELSE None

\* a faulty variant: every error is reported as an internal error
error_response_always_500(status, message) ==
    [status  |-> 500, headers |-> <<<<CONTENT_TYPE, TEXT_PLAIN>>>>,
     body |-> message]

\* the builder result is unwrapped: a failed build panics
error_response(status, message) ==
    LET built == BuildResponse(status, TEXT_PLAIN, message)
    IN  IF built = None THEN Panic ELSE built[1]

\* a faulty variant: the host of the incoming URI is forwarded
target_url_of_authority(uri) ==
    "https://" \o uri.authority \o uri.path
        \o (IF uri.query = None THEN "" ELSE "?" \o uri.query[1])

\* lines 33-37: path and query of the request URI on the fixed origin
target_url(uri) ==
    LET path  == uri.path
        query == IF uri.query = None THEN "" ELSE "?" \o uri.query[1]
    IN  GEMINI_BASE_URL \o path \o query

\* reqwest::blocking::Client::builder().cookie_store(true).build():
\* a client owns a new, empty cookie store
NewClient == [cookie_store |-> {}]

\* client.get(&target_url).send(): a GET without body for the URL string
\* handed to the client, with the cookies the client's store holds for the
\* origin.  The send is one request of the handler; the URL parsing and
\* the redirect hops inside the client library are not part of the model.
GetRequest(client, url) ==
    [method |-> "GET", url |-> url, cookies |-> client.cookie_store,
     body |-> <<>>]

\* lines 61-66
content_type_of(headers) ==
    LET v == HeaderGet(headers, CONTENT_TYPE)
        s == IF v = None THEN None ELSE ToStr(v[1])
    IN  IF s = None THEN TEXT_HTML ELSE s[1]

\* a faulty variant: the upstream headers are copied, minus a blocklist that
\* misses x-content-type-options
relay_response_copying(up, body) ==
    [status  |-> up.status,
     headers |-> SelectSeq(up.headers,
                     LAMBDA h : h[1] \notin {"x-frame-options",
                                             "content-security-policy",
                                             "set-cookie"}),
     body    |-> body]

\* lines 60-66 and 83-93: the response built from the upstream's
\* status, content-type and body
relay_response(up, body) ==
    LET status       == up.status
        content_type == content_type_of(up.headers)
        built        == BuildResponse(status, content_type, body)
    IN  IF built = None THEN error_response(500, MsgBuild) ELSE built[1]

(* What a call meets: whether the client can be built, whether the send    *)
(* succeeds and with which upstream response, whether the body can be read.*)
Cookies == {<<83, 73, 68, 61, 49>>, <<78, 73, 68, 61, 50>>}

UpContentTypes == {<<>>, <<<<CONTENT_TYPE, TEXT_CSS>>>>,
                   <<<<CONTENT_TYPE, TEXT_OBS>>>>}

UpSecurity == {<<>>,
               << <<"x-frame-options", <<68, 69, 78, 89>> >>,
                  <<"content-security-policy", <<100, 101, 102>> >>,
                  <<"x-content-type-options", <<110, 111>> >>,
                  <<"cache-control", <<110, 111>> >> >>}

UpCookies == {<<>>} \cup {<< <<"set-cookie", c>> >> : c \in Cookies}

UpStatusBody == {[status |-> 200, body |-> <<60, 112, 62>>],
                 [status |-> 404, body |-> <<>>]}

UpstreamResponses ==
    {[status  |-> sb.status, headers |-> sec \o ct \o ck, body |-> sb.body] :
        sb \in UpStatusBody, sec \in UpSecurity, ct \in UpContentTypes,
        ck \in UpCookies}

Requests ==
    {[uri    |-> [authority |-> a, path |-> pq[1], query |-> pq[2]],
      method |-> mb[1], body |-> mb[2]] :
        a  \in {"gemini.google.com", "example.org"},
        pq \in {<<"/", None>>, <<"/app", Some("hl=en")>>, <<"/app", Some("")>>},
        mb \in {<<"GET", <<>> >>, <<"POST", <<123, 125>> >>}}

Nets ==
    {[client_ok |-> FALSE, send_ok |-> FALSE, body_ok |-> FALSE, up |-> None],
     [client_ok |-> TRUE,  send_ok |-> FALSE, body_ok |-> FALSE, up |-> None]}
    \cup {[client_ok |-> TRUE, send_ok |-> TRUE, body_ok |-> b, up |-> Some(u)] :
            b \in BOOLEAN, u \in UpstreamResponses}

SetCookies(headers) ==
    {headers[i][2] : i \in {j \in 1..Len(headers) : headers[j][1] = "set-cookie"}}

\* The whole handler: the upstream requests it issues, the path it takes
\* and the Response it returns.
handle_proxy_request(req, net) ==
    LET url == target_url(req.uri)
    IN  IF ~net.client_ok
        THEN [sent |-> <<>>, outcome |-> "client_error",
              response |-> error_response(500, MsgInternal)]
        ELSE LET client == NewClient
                 get    == GetRequest(client, url)
             IN  IF ~net.send_ok
                 THEN [sent |-> <<get>>, outcome |-> "send_error",
                       response |-> error_response(502, MsgFetch)]
                 ELSE IF ~net.body_ok
                 THEN [sent |-> <<get>>, outcome |-> "body_error",
                       response |-> error_response(500, MsgRead)]
                 ELSE [sent |-> <<get>>,
                       outcome |-> IF BuildResponse(net.up[1].status,
                                        content_type_of(net.up[1].headers),
                                        net.up[1].body) = None
                                   THEN "build_error" ELSE "ok",
                       response |-> relay_response(net.up[1], net.up[1].body)]

NoRequest == [uri |-> [authority |-> "", path |-> "", query |-> None],
              method |-> "", body |-> <<>>]

NoResponse == [none |-> TRUE]

ProxyInit ==
    /\ request = NoRequest
    /\ sent = <<>>
    /\ issuedBefore = {}
    /\ issued = {}
    /\ upstream = None
    /\ response = NoResponse
    /\ outcome = "none"

\* the embedded page requests a resource under gemini-proxy://
Intercept ==
    /\ outcome # "pending"
    /\ request' \in Requests
    /\ outcome' = "pending"
    /\ sent' = <<>>
    /\ upstream' = None
    /\ response' = NoResponse
    /\ UNCHANGED <<issuedBefore, issued, boundsVars, webviewVars>>

\* handle_proxy_request runs on the intercepted request
HandleProxyRequest ==
    /\ outcome = "pending"
    /\ \E net \in Nets :
        LET r == handle_proxy_request(request, net)
        IN  /\ sent' = r.sent
            /\ response' = r.response
            /\ outcome' = IF IsPanic(r.response) THEN "panic" ELSE r.outcome
            /\ upstream' = IF r.sent # <<>> /\ net.send_ok THEN net.up ELSE None
            /\ issuedBefore' = issued
            /\ issued' = IF r.sent # <<>> /\ net.send_ok
                         THEN issued \cup SetCookies(net.up[1].headers)
                         ELSE issued
    /\ UNCHANGED <<request, boundsVars, webviewVars>>

---------------------------------------------------------------------------
(* constants.rs, commands/webview.rs *)

TITLEBAR_HEIGHT == F64(32, 0)

GEMINI_URL == "https://gemini.google.com"

MAIN_WINDOW_LABEL == "main"

GEMINI_WEBVIEW_LABEL == "gemini-webview"

NumInvocations == 2

Procs == 1..NumInvocations

\* the webview registry holds a view under the label
Registered(views, label) == \E i \in 1..Len(views) : views[i].label = label

\* a faulty variant: the window lookup never fails
main_window_lookup_unchecked(ws) == TRUE

\* app.get_window(MAIN_WINDOW_LABEL).is_some()
main_window_lookup(ws) == MAIN_WINDOW_LABEL \in ws

\* a faulty variant: the existence check is missing
gemini_webview_exists_unchecked(views) == FALSE

\* app.get_webview(GEMINI_WEBVIEW_LABEL).is_some()
gemini_webview_exists(views) == Registered(views, GEMINI_WEBVIEW_LABEL)

WinGeoms ==
    {[width |-> Wide(1920), height |-> Wide(1080), scale |-> F64(1, 0)],
     [width |-> Wide(1440), height |-> Wide(900),  scale |-> F64(3, -1)],
     [width |-> Wide(800),  height |-> Wide(32),   scale |-> F64(2, 0)]}

WebviewInit ==
    /\ windows = {MAIN_WINDOW_LABEL}
    /\ winGeom \in WinGeoms
    /\ webviews = <<>>
    /\ pc = [p \in Procs |-> "idle"]
    /\ result = [p \in Procs |-> "none"]
    /\ bounds = [p \in Procs |-> None]
    /\ began = [p \in Procs |-> "none"]

\* lines 16-23: the invocation starts and resolves the main window
Begin(p) ==
    /\ pc[p] = "idle"
    /\ began' = [began EXCEPT ![p] =
                    IF MAIN_WINDOW_LABEL \notin windows THEN "no_window"
                    ELSE IF Registered(webviews, GEMINI_WEBVIEW_LABEL)
                         THEN "existing"
                    ELSE "empty"]
    /\ IF main_window_lookup(windows)
       THEN /\ pc' = [pc EXCEPT ![p] = "get_webview"]
            /\ result' = [result EXCEPT ![p] = "none"]
       ELSE /\ pc' = [pc EXCEPT ![p] = "done"]
            /\ result' = [result EXCEPT ![p] = "WindowNotFound"]
    /\ bounds' = [bounds EXCEPT ![p] = None]
    /\ UNCHANGED <<windows, winGeom, webviews, boundsVars, proxyVars>>

\* lines 25-29: nothing to do when the webview already exists
CheckExists(p) ==
    /\ pc[p] = "get_webview"
    /\ IF gemini_webview_exists(webviews)
       THEN /\ pc' = [pc EXCEPT ![p] = "done"]
            /\ result' = [result EXCEPT ![p] = "Ok"]
       ELSE /\ pc' = [pc EXCEPT ![p] = "geometry"]
            /\ UNCHANGED result
    /\ UNCHANGED <<windows, winGeom, webviews, bounds, began, boundsVars, proxyVars>>

\* lines 31-48: scale factor and inner size of the window (a tauri error
\* once the window is gone), the bounds, and the URL, which parses
Geometry(p) ==
    /\ pc[p] = "geometry"
    /\ IF MAIN_WINDOW_LABEL \in windows
       THEN /\ bounds' = [bounds EXCEPT ![p] =
                   Some(calculate_webview_bounds(winGeom.width, winGeom.height,
                                                 winGeom.scale, TITLEBAR_HEIGHT))]
            /\ pc' = [pc EXCEPT ![p] = "add_child"]
            /\ UNCHANGED result
       ELSE /\ pc' = [pc EXCEPT ![p] = "done"]
            /\ result' = [result EXCEPT ![p] = "TauriError"]
            /\ UNCHANGED bounds
    /\ UNCHANGED <<windows, winGeom, webviews, began, boundsVars, proxyVars>>

\* lines 50-61: add_child registers the view; tauri refuses it with an
\* error when the window is gone or the label is already registered
AddChild(p) ==
    /\ pc[p] = "add_child"
    /\ pc' = [pc EXCEPT ![p] = "done"]
    /\ IF MAIN_WINDOW_LABEL \in windows
          /\ ~Registered(webviews, GEMINI_WEBVIEW_LABEL)
       THEN /\ webviews' = Append(webviews,
                   [label |-> GEMINI_WEBVIEW_LABEL, url |-> GEMINI_URL,
                    rect |-> bounds[p][1]])
            /\ result' = [result EXCEPT ![p] = "Ok"]
       ELSE /\ result' = [result EXCEPT ![p] = "TauriError"]
            /\ UNCHANGED webviews
    /\ UNCHANGED <<windows, winGeom, bounds, began, boundsVars, proxyVars>>

\* the command's result is delivered; the frontend may invoke it again
Return(p) ==
    /\ pc[p] = "done"
    /\ pc' = [pc EXCEPT ![p] = "idle"]
    /\ UNCHANGED <<windows, winGeom, webviews, result, bounds, began, boundsVars, proxyVars>>

\* the window is resized or moves to a display with another scale factor
Resize ==
    /\ MAIN_WINDOW_LABEL \in windows
    /\ winGeom' \in WinGeoms \ {winGeom}
    /\ UNCHANGED <<windows, webviews, pc, result, bounds, began, boundsVars, proxyVars>>

\* the main window is closed: its label no longer resolves (tauri keeps
\* windows and webviews in two registries; the views go in a second step)
CloseWindow ==
    /\ MAIN_WINDOW_LABEL \in windows
    /\ windows' = {}
    /\ UNCHANGED <<winGeom, webviews, pc, result, bounds, began, boundsVars, proxyVars>>

\* the child views of the closed window leave the webview registry
DropWebviews ==
    /\ windows = {}
    /\ webviews # <<>>
    /\ webviews' = <<>>
    /\ UNCHANGED <<windows, winGeom, pc, result, bounds, began, boundsVars, proxyVars>>

InProgress(p) == pc[p] \in {"get_webview", "geometry", "add_child"}

---------------------------------------------------------------------------
(* Specifications *)

BoundsNext == Calculate \/ NextCall

ProxyNext == Intercept \/ HandleProxyRequest

WebviewNext ==
    \/ \E p \in Procs : Begin(p)
    \/ \E p \in Procs : CheckExists(p)
    \/ \E p \in Procs : Geometry(p)
    \/ \E p \in Procs : AddChild(p)
    \/ \E p \in Procs : Return(p)
    \/ Resize
    \/ CloseWindow
    \/ DropWebviews

\* the state a component rests in while another specification runs
BoundsIdle ==
    /\ bIn = [window_width |-> Wide(1920), window_height |-> Wide(1080),
              scale_factor |-> F64(1, 0), titlebar_height |-> TITLEBAR_HEIGHT]
    /\ bOut = None

WebviewIdle ==
    /\ WebviewInit
    /\ winGeom = [width |-> Wide(1920), height |-> Wide(1080),
                  scale |-> F64(1, 0)]

InitBounds  == BoundsInit /\ ProxyInit /\ WebviewIdle
InitProxy   == BoundsIdle /\ ProxyInit /\ WebviewIdle
InitWebview == BoundsIdle /\ ProxyInit /\ WebviewInit

SpecBounds  == InitBounds /\ [][BoundsNext]_vars
SpecProxy   == InitProxy /\ [][ProxyNext]_vars
SpecWebview == InitWebview /\ [][WebviewNext]_vars

---------------------------------------------------------------------------
(* Properties of calculate_webview_bounds, under SpecBounds *)

Product == F64Mul(bIn.titlebar_height, bIn.scale_factor)

\* the nearest integer to a non-negative f64, halves away from zero
F64Round(f) ==
    IF f.e >= 0 THEN F64Trunc(f)
    ELSE Wide((f.m + 2 ^ (0 - f.e - 1)) \div (2 ^ (0 - f.e)))

\* C5: for all inputs the result is x = 0, y = floor(titlebarHeight *
\* scaleFactor), width = windowWidth, and height = windowHeight - y when
\* windowHeight > y, else 0.
C5_BoundsAsSpecified ==
    bOut # None =>
        LET r == bOut[1]
            titlebarPhys == F64Trunc(Product)
        IN  /\ r.x = 0
            /\ r.y >= 0
            /\ Wide(r.y) = titlebarPhys
            /\ r.width = bIn.window_width
            /\ r.height = IF WideGt(bIn.window_height, titlebarPhys)
                          THEN WideSub(bIn.window_height, titlebarPhys)
                          ELSE Wide(0)

\* C6 as stated: every windowHeight <= round(titlebarHeight * scaleFactor)
\* gets a zero-height view.
C6_ZeroHeightUpToRound ==
    (bOut # None /\ WideLe(bIn.window_height, F64Round(Product)))
        => bOut[1].height = Wide(0)

\* C6 amended: every windowHeight <= floor(titlebarHeight * scaleFactor)
\* gets a zero-height view.
C6_ZeroHeightUpToFloor ==
    (bOut # None /\ WideLe(bIn.window_height, F64Trunc(Product)))
        => bOut[1].height = Wide(0)

\* 32.0 * 1.515625 = 48.5: a window 48 pixels high gets no view
C6_Witness ==
    /\ bOut # None
    /\ bIn.titlebar_height = F64(32, 0)
    /\ bIn.scale_factor = F64(97, -6)
    /\ bIn.window_height = Wide(48)
    /\ bOut[1].height = Wide(0)
    /\ bOut[1].y = 48

---------------------------------------------------------------------------
(* Properties of handle_proxy_request, under SpecProxy *)

Returned == outcome \notin {"none", "pending"}

\* C1: whatever the upstream sent, a returned response carries none of the
\* headers to strip; its only header is content-type.
C1_OnlyContentType ==
    Returned =>
        /\ ~IsPanic(response)
        /\ HeaderNames(response.headers) \cap HEADERS_TO_STRIP = {}
        /\ Len(response.headers) = 1
        /\ response.headers[1][1] = CONTENT_TYPE

\* the upstream sent all three headers and the call succeeded
C1_Witness ==
    /\ outcome = "ok"
    /\ HEADERS_TO_STRIP \subseteq HeaderNames(upstream[1].headers)
    /\ HeaderNames(response.headers) = {CONTENT_TYPE}

IsErrorResponse(status) ==
    /\ ~IsPanic(response)
    /\ response.status = status
    /\ HeaderGet(response.headers, CONTENT_TYPE) = Some(TEXT_PLAIN)
    /\ response.body # <<>>

\* C2: the handler never panics; a failed send returns 502, a failed client
\* construction, body read or response build returns 500, each with
\* Content-Type text/plain and a non-empty body.
C2_ErrorResponses ==
    /\ outcome # "panic"
    /\ outcome = "send_error" => IsErrorResponse(502)
    /\ outcome \in {"client_error", "body_error", "build_error"}
           => IsErrorResponse(500)

\* the upstream was unreachable
C2_Witness ==
    /\ outcome = "send_error"
    /\ response.status = 502
    /\ response.body = MsgFetch
    /\ sent # <<>>

\* C3: when the upstream returns a body and a content-type, the response
\* has the upstream's body, content-type value and status code.
C3_PreservesUpstream ==
    (outcome = "ok" /\ HeaderGet(upstream[1].headers, CONTENT_TYPE) # None)
        => /\ response.body = upstream[1].body
           /\ HeaderGet(response.headers, CONTENT_TYPE)
                  = HeaderGet(upstream[1].headers, CONTENT_TYPE)
           /\ response.status = upstream[1].status

\* C4: a cookie the upstream set in answer to an earlier call is sent with
\* every later call.
C4_CookiesPersist ==
    sent # <<>> => issuedBefore \subseteq sent[1].cookies

ExpectedUrl ==
    "https://gemini.google.com" \o request.uri.path
        \o (IF request.uri.query = None THEN ""
            ELSE "?" \o request.uri.query[1])

OneGetToExpectedUrl ==
    /\ Len(sent) = 1
    /\ sent[1].method = "GET"
    /\ sent[1].url = ExpectedUrl
    /\ sent[1].body = <<>>

\* C8 as stated: every call issues exactly one GET, to the fixed origin
\* followed by the request's path and, when present, "?" and its query.
C8_OneGetEveryCall ==
    Returned => OneGetToExpectedUrl

\* C8 amended: every call whose HTTP client could be constructed issues
\* exactly one such GET; a call whose client could not be constructed
\* issues no request.
C8_OneGetUnlessNoClient ==
    Returned => IF outcome = "client_error" THEN sent = <<>>
                ELSE OneGetToExpectedUrl

\* a POST with a body to another host is forwarded as a bare GET
C8_Witness ==
    /\ outcome = "ok"
    /\ request.uri.authority = "example.org"
    /\ request.method = "POST"
    /\ request.body # <<>>
    /\ request.uri.query = Some("hl=en")
    /\ sent = << [method |-> "GET", url |-> "https://gemini.google.com/app?hl=en",
                  cookies |-> {}, body |-> <<>>] >>

---------------------------------------------------------------------------
(* Properties of create_gemini_webview *)

C7_State ==
    /\ Len(webviews) <= 1
    /\ \A p \in Procs :
          /\ (pc[p] = "done" /\ began[p] = "existing"
                  /\ MAIN_WINDOW_LABEL \in windows) => result[p] = "Ok"
          /\ (pc[p] = "done" /\ result[p] = "Ok"
                  /\ MAIN_WINDOW_LABEL \in windows) => Len(webviews) = 1

C7_Step ==
    \A p \in Procs :
        (began[p] = "existing" /\ InProgress(p) /\ pc'[p] # pc[p])
            => webviews' = webviews

\* C7, under SpecWebview: while the main window exists, a call made after a
\* successful one (the view exists when it begins) returns Ok, and no step
\* of such a call changes the views; there is never a second view, and
\* exactly one after a successful call.
C7_Idempotent == [](C7_State) /\ [][C7_Step]_vars

\* a second call found the view of the first and succeeded
C7_Witness ==
    \E p \in Procs :
        /\ pc[p] = "done"
        /\ began[p] = "existing"
        /\ result[p] = "Ok"
        /\ Len(webviews) = 1

\* C9, under SpecWebview: an invocation that starts when the main window
\* label does not resolve returns WindowNotFound at once and leaves the
\* views alone, whether or not the view exists.
C9_WindowNotFound ==
    [][\A p \in Procs :
          (pc[p] = "idle" /\ pc'[p] # "idle" /\ MAIN_WINDOW_LABEL \notin windows)
              => /\ pc'[p] = "done"
                 /\ result'[p] = "WindowNotFound"
                 /\ webviews' = webviews]_vars

\* WindowNotFound was returned while the view was still registered
C9_Witness ==
    \E p \in Procs :
        /\ pc[p] = "done"
        /\ result[p] = "WindowNotFound"
        /\ began[p] = "no_window"
        /\ Registered(webviews, GEMINI_WEBVIEW_LABEL)

\* C10, under SpecWebview: when the invocations all began with the window
\* present and no view, and the window is still there when they are done,
\* every one reports Ok and at most one view exists.
C10_ConcurrentCreate ==
    ((\A p \in Procs : pc[p] = "done" /\ began[p] = "empty")
        /\ MAIN_WINDOW_LABEL \in windows)
        => /\ \A p \in Procs : result[p] = "Ok"
           /\ Len(webviews) <= 1

=============================================================================
